---- MODULE Spec2Model ----
(***************************************************************************)
(* View-state and data-fetch orchestration of the storefront client, in    *)
(* its richest variant: Auth Gate (LoginPage), Session Loader (App's       *)
(* effect), View Router (App), Catalog Loader and Catalog View             *)
(* (ProductCatalog), Detail Loader (ProductDetail), Cart Summary           *)
(* (ShoppingCart).  The plain variant (App.tsx) is the same machine        *)
(* without token, session, cart, search, sort and pages.                   *)
(*                                                                         *)
(* React's component-local state is one record per component.  A component *)
(* that is not in the rendered tree has mounted = FALSE and its fields at  *)
(* their useState initial values: unmounting destroys the state, mounting  *)
(* creates it afresh.  Every action is one event-loop task: a DOM event    *)
(* handler or the continuation of an await, together with the render and   *)
(* the effects that follow it.                                             *)
(*                                                                         *)
(* A fetch is in flight from the task that issues it to the task that      *)
(* consumes its response; the network decides when and how it ends.  The   *)
(* reads of ProductCatalog and ProductDetail write only the state of the   *)
(* component that issued them, and React discards a state update addressed *)
(* to an unmounted component, so they leave the model when their component *)
(* is unmounted.  The login request calls App's setToken and is kept.      *)
(*                                                                         *)
(* Not modelled: the text of the username and password fields (they decide *)
(* how the server answers, which the model leaves to the network), and the *)
(* markup, styling and currency formatting.                                *)
(***************************************************************************)
EXTENDS Integers, Sequences, FiniteSets

VARIABLES token, user, cart, allProducts, selectedProductId, crashed,
          login, loginFetch, sessionPc, sessionReads,
          catalog, catalogFetch, detail, detailFetches

vars == <<token, user, cart, allProducts, selectedProductId, crashed,
          login, loginFetch, sessionPc, sessionReads,
          catalog, catalogFetch, detail, detailFetches>>

(***************************************************************************)
(* Bounds of the model and constants of the program.                       *)
(***************************************************************************)
\* Number of products the server knows (ids 1..MaxProducts).
MaxProducts == 9
\* Most product fetches of one ProductDetail instance outstanding at once.
MaxInFlight == 2
\* const itemsPerPage = 8
itemsPerPage == 8

\* null of a nullable number (selected id, displayed product).
NullId == 0 - 1
\* null of a nullable string (token, error message).
Null == "null"
\* What data.token evaluates to when the login response has no token field.
Undefined == "undefined"

ProductIds == 1..MaxProducts

(***************************************************************************)
(* Strings: sequences of characters over the letters a and b in both       *)
(* cases, plus a letter c that occurs in no title.                         *)
(***************************************************************************)
TitleChars == <<"a", "A", "b", "B">>

\* String.prototype.toLowerCase, one character.
toLowerCaseChar(c) == CASE c = "A" -> "a" [] c = "B" -> "b" [] OTHER -> c

\* String.prototype.toLowerCase.
toLowerCase(s) == [i \in 1..Len(s) |-> toLowerCaseChar(s[i])]

\* String.prototype.includes: q occurs in s as a contiguous substring.
includes(s, q) ==
    \E i \in 0..(Len(s) - Len(q)) : \A j \in 1..Len(q) : s[i + j] = q[j]

\* What the user types into the search box: nothing, one letter in either
\* case, two letters in mixed case, and a letter no title has.
Queries ==
    { << >>, <<"a">>, <<"B">>, <<"B", "a">>, <<"a", "b">>, <<"c">> }

(***************************************************************************)
(* Products.  A product is represented by its id; its fields are functions *)
(* of the id, chosen so that titles differ in letters and in case and      *)
(* prices and ratings have ties.                                           *)
(***************************************************************************)
Title(id) == <<TitleChars[(id % 4) + 1], TitleChars[((id \div 4) % 4) + 1]>>
Price(id) == ((id * 7) % 5) * 100 + 99
Rate(id)  == 1 + ((id * 3) % 5)

\* The server's product collection, in server order: the first n products.
ProductList(n) == [i \in 1..n |-> i]

(***************************************************************************)
(* Catalog View: the derivation from (products, searchQuery, sortConfig,   *)
(* currentPage) that ProductCatalog computes on every render.              *)
(***************************************************************************)
\* Faulty variant of MatchesQuery: the query is not lower-cased.
MatchesQueryCaseSensitive(id, searchQuery) ==
    includes(toLowerCase(Title(id)), searchQuery)

\* The filter callback: title.toLowerCase().includes(searchQuery.toLowerCase()).
MatchesQuery(id, searchQuery) ==
    includes(toLowerCase(Title(id)), toLowerCase(searchQuery))

\* Array.prototype.filter with the callback above: order kept, others dropped.
FilterProducts(products, searchQuery) ==
    SelectSeq(products, LAMBDA id : MatchesQuery(id, searchQuery))

\* Collation weight of a character's letter, case ignored.
Letter(c) == CASE c \in {"a", "A"} -> 1 [] c \in {"b", "B"} -> 2 [] OTHER -> 3

IsUpper(c) == c \in {"A", "B"}

\* String.prototype.localeCompare: letters first, then lower case before
\* upper case at the first position where the case differs.  -1, 0 or 1.
localeCompare(s, t) ==
    LET n == IF Len(s) < Len(t) THEN Len(s) ELSE Len(t)
        letterDiff == {i \in 1..n : Letter(s[i]) # Letter(t[i])}
        caseDiff == {i \in 1..n : IsUpper(s[i]) # IsUpper(t[i])}
        first(S) == CHOOSE i \in S : \A j \in S : i <= j
    IN  IF letterDiff # {}
        THEN IF Letter(s[first(letterDiff)]) < Letter(t[first(letterDiff)])
             THEN 0 - 1 ELSE 1
        ELSE IF Len(s) # Len(t) THEN (IF Len(s) < Len(t) THEN 0 - 1 ELSE 1)
        ELSE IF caseDiff # {}
        THEN IF IsUpper(t[first(caseDiff)]) THEN 0 - 1 ELSE 1
        ELSE 0

\* The sort callback of ProductCatalog: negative when a goes before b.
CompareProducts(sortConfig, a, b) ==
    IF sortConfig.key = "price"
    THEN IF sortConfig.order = "asc" THEN Price(a) - Price(b) ELSE Price(b) - Price(a)
    ELSE IF sortConfig.key = "rating"
    THEN IF sortConfig.order = "asc" THEN Rate(a) - Rate(b) ELSE Rate(b) - Rate(a)
    ELSE IF sortConfig.order = "asc"
    THEN localeCompare(Title(a), Title(b))
    ELSE localeCompare(Title(b), Title(a))

\* Array.prototype.sort (stable): x goes after every element that does not
\* compare greater than it.
RECURSIVE InsertSorted(_, _, _)
InsertSorted(sortConfig, sorted, x) ==
    IF sorted = << >> THEN <<x>>
    ELSE IF CompareProducts(sortConfig, Head(sorted), x) <= 0
    THEN <<Head(sorted)>> \o InsertSorted(sortConfig, Tail(sorted), x)
    ELSE <<x>> \o sorted

RECURSIVE SortProducts(_, _)
SortProducts(sortConfig, list) ==
    IF list = << >> THEN << >>
    ELSE InsertSorted(sortConfig,
                      SortProducts(sortConfig, SubSeq(list, 1, Len(list) - 1)),
                      list[Len(list)])

\* const filteredAndSortedProducts = products.filter(...).sort(...)
filteredAndSortedProducts(c) ==
    SortProducts(c.sortConfig, FilterProducts(c.products, c.searchQuery))

\* Faulty variant of MathCeilDiv: Math.floor instead of Math.ceil.
MathFloorDiv(n, d) == n \div d

\* Math.ceil(n / d) for n >= 0, d > 0.
MathCeilDiv(n, d) == (n + d - 1) \div d

\* const totalPages = Math.ceil(filteredAndSortedProducts.length / itemsPerPage)
totalPages(c) == MathCeilDiv(Len(filteredAndSortedProducts(c)), itemsPerPage)

Max(a, b) == IF a >= b THEN a ELSE b
Min(a, b) == IF a <= b THEN a ELSE b

\* Array.prototype.slice(start, end): a negative index counts from the end,
\* both indices are clamped to [0, length], and end <= start gives [].
ArraySlice(list, start, end) ==
    LET n == Len(list)
        from == IF start < 0 THEN Max(n + start, 0) ELSE Min(start, n)
        to == IF end < 0 THEN Max(n + end, 0) ELSE Min(end, n)
    IN  SubSeq(list, from + 1, to)

\* const paginatedProducts = filteredAndSortedProducts.slice(...)
paginatedProducts(c) ==
    ArraySlice(filteredAndSortedProducts(c),
               (c.currentPage - 1) * itemsPerPage,
               c.currentPage * itemsPerPage)

\* disabled={currentPage === 1}
PreviousDisabled(c) == c.currentPage = 1

\* disabled={currentPage === totalPages}
NextDisabled(c) == c.currentPage = totalPages(c)

\* The <option> values of the sort <select>, split at "-".
SortOptions ==
    { [key |-> "title", order |-> "asc"], [key |-> "title", order |-> "desc"],
      [key |-> "price", order |-> "asc"], [key |-> "price", order |-> "desc"],
      [key |-> "rating", order |-> "desc"] }

(***************************************************************************)
(* Component state.                                                        *)
(***************************************************************************)
\* if (!token): null, undefined and "" are falsy.
Truthy(t) == t \notin {Null, Undefined, ""}

\* LoginPage's useState initial values.
LoginInit == [mounted |-> TRUE, error |-> Null, loading |-> FALSE]
LoginGone == [LoginInit EXCEPT !.mounted = FALSE]

DefaultSort == [key |-> "title", order |-> "asc"]

\* ProductCatalog's useState initial values.
CatalogInit ==
    [mounted |-> TRUE, products |-> << >>, loading |-> TRUE, error |-> Null,
     searchQuery |-> << >>, sortConfig |-> DefaultSort, currentPage |-> 1]
CatalogGone == [CatalogInit EXCEPT !.mounted = FALSE]

\* ProductDetail's useState initial values.
DetailInit == [mounted |-> TRUE, product |-> NullId, loading |-> TRUE, error |-> Null]
DetailGone == [DetailInit EXCEPT !.mounted = FALSE]

\* Error texts.
InvalidCredentialsMsg == "Credenciais invalidas. Por favor, tente novamente."
HttpErrorMsg == "HTTP error! status"
NetworkErrorMsg == "Failed to fetch"
ParseErrorMsg == "Unexpected token in JSON"

\* The line items of the cart the server holds for user 2.
CartProducts == <<1, 2>>

\* The three reads of fetchUserData, in Promise.all order.
ReadNames == {"user", "cart", "products"}

\* How a session read can end: 2xx with the expected payload ("okEmpty": the
\* carts endpoint answers []), non-2xx with a JSON error object, a rejected
\* fetch, a body that response.json() rejects.
ReadOutcomes(r) ==
    IF r = "cart" THEN {"ok", "okEmpty", "http", "transport", "badbody"}
    ELSE {"ok", "http", "transport", "badbody"}

\* How a login request can end; "notoken" is a 2xx JSON body without token.
LoginOutcomes == {"ok", "notoken", "http401", "http500", "transport", "badbody"}

\* How a product-list or product read can end; "empty" is a 2xx null body.
CatalogSizes == {0, 3, MaxProducts}
FetchFailures == {"http", "transport", "badbody"}
DetailOutcomes == {"ok", "empty"} \cup FetchFailures

\* catch (e) { setError(e.message) } of the catalog and detail loaders.
FetchErrorMsg(o) ==
    CASE o = "http" -> HttpErrorMsg
      [] o = "transport" -> NetworkErrorMsg
      [] OTHER -> ParseErrorMsg

ErrBody == "errbody"
EmptyArray == [kind |-> "array", items |-> << >>]

(***************************************************************************)
(* App's render.                                                           *)
(***************************************************************************)
\* Which of the three top-level views App returns.
TopLevelView(tok, sel) ==
    IF ~Truthy(tok) THEN "login"
    ELSE IF sel = NullId THEN "catalog"
    ELSE "detail"

\* The header evaluates user?.name.firstname, and ShoppingCart calls
\* products.find for every line item of a non-empty cart: both throw a
\* TypeError when the slice holds a JSON error object instead of the payload.
RenderThrows(tok, usr, crt, prods) ==
    /\ Truthy(tok)
    /\ \/ usr = ErrBody
       \/ crt = "cart" /\ Len(CartProducts) > 0 /\ prods.kind # "array"

\* The render that follows a handler, with the effects it schedules.  The
\* arguments are the component states the handler leaves behind; token',
\* user', cart', allProducts' and selectedProductId' are set by the caller.
\*  - an exception thrown while rendering unmounts the whole tree;
\*  - a view that leaves the tree loses its state and its fetches;
\*  - ProductCatalog's mount effect reads the product list;
\*  - ProductDetail's effect reads the product on mount and whenever
\*    productId changes (and not if productId is falsy);
\*  - App's effect starts fetchUserData when token changes to a truthy value.
Rerender(lg, cat, catF, det, detF, pc, reads) ==
    LET thrown == RenderThrows(token', user', cart', allProducts')
        view == IF thrown THEN "none"
                ELSE TopLevelView(token', selectedProductId')
        idChanged == selectedProductId' # selectedProductId
        wanted == IF selectedProductId' = 0 THEN {} ELSE {selectedProductId'}
        started == token' # token /\ Truthy(token') /\ ~thrown
    IN  /\ crashed' = thrown
        /\ login' = IF view # "login" THEN LoginGone
                    ELSE IF lg.mounted THEN lg ELSE LoginInit
        /\ catalog' = IF view # "catalog" THEN CatalogGone
                      ELSE IF cat.mounted THEN cat ELSE CatalogInit
        /\ catalogFetch' = IF view # "catalog" THEN FALSE
                           ELSE IF cat.mounted THEN catF ELSE TRUE
        /\ detail' = IF view # "detail" THEN DetailGone
                     ELSE IF det.mounted THEN det ELSE DetailInit
        /\ detailFetches' = IF view # "detail" THEN {}
                            ELSE IF ~det.mounted THEN wanted
                            ELSE IF idChanged THEN detF \cup wanted
                            ELSE detF
        /\ sessionPc' = IF started THEN "awaiting" ELSE pc
        /\ sessionReads' = IF started THEN [r \in ReadNames |-> "pending"] ELSE reads

\* A render after a handler that wrote only App's state.
RerenderApp ==
    Rerender(login, catalog, catalogFetch, detail, detailFetches,
             sessionPc, sessionReads)

Init ==
    /\ token = Null
    /\ user = Null
    /\ cart = Null
    /\ allProducts = EmptyArray
    /\ selectedProductId = NullId
    /\ crashed = FALSE
    /\ login = LoginInit
    /\ loginFetch = {}
    /\ sessionPc = "idle"
    /\ sessionReads = [r \in ReadNames |-> "idle"]
    /\ catalog = CatalogGone
    /\ catalogFetch = FALSE
    /\ detail = DetailGone
    /\ detailFetches = {}

(***************************************************************************)
(* Auth Gate: LoginPage.                                                   *)
(***************************************************************************)
\* Faulty variant of SubmitEnabled: the button is not disabled while a
\* submission is in flight.
SubmitAlwaysEnabled(lg) == lg.mounted

\* <button type="submit" disabled={loading}>: the form can be submitted.
SubmitEnabled(lg) == lg.mounted /\ ~lg.loading

\* handleSubmit up to the await: setLoading(true); setError(null); fetch.
\* The credentials typed decide, with the network, how the request ends.
LoginSubmit(o) ==
    /\ ~crashed
    /\ SubmitEnabled(login)
    /\ loginFetch' = loginFetch \cup {o}
    /\ UNCHANGED <<token, user, cart, allProducts, selectedProductId>>
    /\ Rerender([login EXCEPT !.loading = TRUE, !.error = Null],
                catalog, catalogFetch, detail, detailFetches,
                sessionPc, sessionReads)

\* Faulty variant of LoginErrorOf: a 5xx status shows the HTTP error text.
LoginErrorOfStatus(o) ==
    CASE o = "http401" -> InvalidCredentialsMsg
      [] o = "http500" -> HttpErrorMsg
      [] o = "transport" -> NetworkErrorMsg
      [] o = "badbody" -> ParseErrorMsg
      [] OTHER -> Null

\* The message handleSubmit's catch block displays, Null when nothing is thrown.
LoginErrorOf(o) ==
    CASE o \in {"http401", "http500"} -> InvalidCredentialsMsg
      [] o = "transport" -> NetworkErrorMsg
      [] o = "badbody" -> ParseErrorMsg
      [] OTHER -> Null

\* The token handleSubmit hands to onLoginSuccess (= setToken), the token
\* unchanged when it throws before.
LoginTokenOf(o, tok) ==
    CASE o = "ok" -> "tok"
      [] o = "notoken" -> Undefined
      [] OTHER -> tok

\* handleSubmit from the await on: the response arrives.  onLoginSuccess is
\* App's setToken; setError and setLoading write LoginPage's own state.
LoginComplete(o) ==
    /\ ~crashed
    /\ o \in loginFetch
    /\ loginFetch' = loginFetch \ {o}
    /\ token' = LoginTokenOf(o, token)
    /\ UNCHANGED <<user, cart, allProducts, selectedProductId>>
    /\ Rerender([login EXCEPT !.loading = FALSE,
                              !.error = IF LoginErrorOf(o) = Null THEN @
                                        ELSE LoginErrorOf(o)],
                catalog, catalogFetch, detail, detailFetches,
                sessionPc, sessionReads)

(***************************************************************************)
(* Session Loader: App's effect, fetchUserData.                            *)
(***************************************************************************)
\* What setUser / setCart / setAllProducts receive for a read that resolved.
UserOf(o) == IF o = "ok" THEN "user" ELSE ErrBody
\* cartData[0]: the first cart, undefined for [] and for an error object.
CartOf(o) == IF o = "ok" THEN "cart" ELSE Undefined
ProductsOf(o) ==
    IF o = "ok" THEN [kind |-> "array", items |-> ProductList(MaxProducts)]
    ELSE [kind |-> ErrBody, items |-> << >>]

\* Promise.all rejects as soon as one fetch rejects.
PromiseAllRejected(reads) == \E r \in ReadNames : reads[r] = "transport"
\* Promise.all resolves once every fetch has resolved.
PromiseAllResolved(reads) ==
    \A r \in ReadNames : reads[r] \notin {"idle", "pending", "transport"}
\* One of the three response.json() calls rejects.
JsonRejected(reads) == \E r \in ReadNames : reads[r] = "badbody"

\* One of the three responses arrives.  fetchUserData continues past the
\* await only when Promise.all has resolved; it then parses the three bodies
\* and writes the three slices, without looking at response.ok.
SessionReadArrives(r, o) ==
    /\ ~crashed
    /\ sessionPc = "awaiting"
    /\ sessionReads[r] = "pending"
    /\ o \in ReadOutcomes(r)
    /\ LET reads == [sessionReads EXCEPT ![r] = o]
           written == PromiseAllResolved(reads) /\ ~JsonRejected(reads)
           pc == IF PromiseAllRejected(reads) THEN "failed"
                 ELSE IF ~PromiseAllResolved(reads) THEN "awaiting"
                 ELSE IF JsonRejected(reads) THEN "failed"
                 ELSE "done"
       IN  /\ user' = IF written THEN UserOf(reads["user"]) ELSE user
           /\ cart' = IF written THEN CartOf(reads["cart"]) ELSE cart
           /\ allProducts' = IF written THEN ProductsOf(reads["products"])
                             ELSE allProducts
           /\ UNCHANGED <<token, selectedProductId, loginFetch>>
           /\ Rerender(login, catalog, catalogFetch, detail, detailFetches,
                       pc, reads)

(***************************************************************************)
(* View Router: the setSelectedProductId callbacks App hands out.          *)
(***************************************************************************)
\* setSelectedProductId(id) and the render after it.  While ProductDetail
\* stays mounted the new id starts another read next to the outstanding
\* ones; the model keeps at most MaxInFlight of them, one per id.
SelectProduct(id) ==
    /\ detail.mounted /\ id # selectedProductId
         => id \notin detailFetches /\ Cardinality(detailFetches) < MaxInFlight
    /\ selectedProductId' = id
    /\ UNCHANGED <<token, user, cart, allProducts, loginFetch>>
    /\ RerenderApp

\* <h1 onClick={() => setSelectedProductId(null)}> of the header.
HeaderTitleClick ==
    /\ ~crashed
    /\ Truthy(token)
    /\ selectedProductId' = NullId
    /\ UNCHANGED <<token, user, cart, allProducts, loginFetch>>
    /\ RerenderApp

\* The cart dropdown lists cart.products when the cart is not empty.
CartLineItems == IF cart = "cart" THEN {CartProducts[i] : i \in 1..Len(CartProducts)} ELSE {}

\* <li onClick={() => onProductClick(item.productId)}> of ShoppingCart.
CartItemClick(id) ==
    /\ ~crashed
    /\ Truthy(token)
    /\ id \in CartLineItems
    /\ SelectProduct(id)

(***************************************************************************)
(* Catalog Loader and Catalog View: ProductCatalog.                        *)
(***************************************************************************)
\* fetchProducts from the await on: setProducts or setError, then
\* setLoading(false).  list is the array a 2xx response carries.
fetchProductsDone(c, o, list) ==
    IF o \in FetchFailures
    THEN [c EXCEPT !.error = FetchErrorMsg(o), !.loading = FALSE]
    ELSE [c EXCEPT !.products = list, !.loading = FALSE]

CatalogFetchCompletes(o, n) ==
    /\ ~crashed
    /\ catalog.mounted
    /\ catalogFetch
    /\ o \in {"ok"} \cup FetchFailures
    /\ n \in CatalogSizes
    /\ o # "ok" => n = 0
    /\ UNCHANGED <<token, user, cart, allProducts, selectedProductId, loginFetch>>
    /\ Rerender(login, fetchProductsDone(catalog, o, ProductList(n)),
                FALSE, detail, detailFetches, sessionPc, sessionReads)

\* The controls and the grid are rendered: not loading, no error.
CatalogShown == catalog.mounted /\ ~catalog.loading /\ catalog.error = Null

\* onChange of the search input.
SearchChange(c, q) == [c EXCEPT !.searchQuery = q, !.currentPage = 1]

\* Faulty variant of handleSortChange: the page is not reset.
handleSortChangeKeepPage(c, opt) == [c EXCEPT !.sortConfig = opt]

\* handleSortChange.
handleSortChange(c, opt) == [c EXCEPT !.sortConfig = opt, !.currentPage = 1]

\* onClick of "Anterior".
PreviousClick(c) == [c EXCEPT !.currentPage = Max(c.currentPage - 1, 1)]

\* onClick of "Próxima".
NextClick(c) == [c EXCEPT !.currentPage = Min(c.currentPage + 1, totalPages(c))]

\* A handler of the catalog's controls runs and the catalog renders again.
CatalogUpdate(c) ==
    /\ UNCHANGED <<token, user, cart, allProducts, selectedProductId, loginFetch>>
    /\ Rerender(login, c, catalogFetch, detail, detailFetches,
                sessionPc, sessionReads)

SearchInput(q) ==
    /\ ~crashed
    /\ CatalogShown
    /\ q \in Queries \ {catalog.searchQuery}
    /\ CatalogUpdate(SearchChange(catalog, q))

SortSelect(opt) ==
    /\ ~crashed
    /\ CatalogShown
    /\ opt \in SortOptions \ {catalog.sortConfig}
    /\ CatalogUpdate(handleSortChange(catalog, opt))

PreviousPage ==
    /\ ~crashed
    /\ CatalogShown
    /\ ~PreviousDisabled(catalog)
    /\ CatalogUpdate(PreviousClick(catalog))

NextPage ==
    /\ ~crashed
    /\ CatalogShown
    /\ ~NextDisabled(catalog)
    /\ CatalogUpdate(NextClick(catalog))

\* The ids of the cards of the grid: those of paginatedProducts.
CardIds ==
    IF CatalogShown
    THEN LET page == paginatedProducts(catalog) IN {page[i] : i \in 1..Len(page)}
    ELSE {}

\* onClick of a card of the grid.
CatalogProductClick(id) ==
    /\ ~crashed
    /\ id \in CardIds
    /\ SelectProduct(id)

(***************************************************************************)
(* Detail Loader: ProductDetail.                                           *)
(***************************************************************************)
\* fetchProduct from the await on, for the read of product id: setProduct or
\* setError, then setLoading(false).  Nothing else is written: neither error
\* nor product is reset, and the id the read was issued for is not compared
\* with the current productId.
fetchProductDone(d, id, o) ==
    IF o \in FetchFailures
    THEN [d EXCEPT !.error = FetchErrorMsg(o), !.loading = FALSE]
    ELSE [d EXCEPT !.product = IF o = "ok" THEN id ELSE NullId, !.loading = FALSE]

DetailFetchCompletes(id, o) ==
    /\ ~crashed
    /\ detail.mounted
    /\ id \in detailFetches
    /\ o \in DetailOutcomes
    /\ UNCHANGED <<token, user, cart, allProducts, selectedProductId, loginFetch>>
    /\ Rerender(login, catalog, catalogFetch, fetchProductDone(detail, id, o),
                detailFetches \ {id}, sessionPc, sessionReads)

\* What ProductDetail returns.
DetailShows(d) ==
    IF d.loading THEN "loading"
    ELSE IF d.error # Null THEN "error"
    ELSE IF d.product = NullId THEN "notfound"
    ELSE "product"

\* The back button exists only next to a displayed product.
BackClick ==
    /\ ~crashed
    /\ detail.mounted
    /\ DetailShows(detail) = "product"
    /\ selectedProductId' = NullId
    /\ UNCHANGED <<token, user, cart, allProducts, loginFetch>>
    /\ RerenderApp

\* A click on any one of the cards shown.
CardClick == \E id \in CardIds : CatalogProductClick(id)

Next ==
    \/ \E o \in LoginOutcomes : LoginSubmit(o)
    \/ \E o \in LoginOutcomes : LoginComplete(o)
    \/ \E r \in ReadNames, o \in {"ok", "okEmpty"} \cup FetchFailures :
           SessionReadArrives(r, o)
    \/ HeaderTitleClick
    \/ \E id \in ProductIds : CartItemClick(id)
    \/ \E o \in {"ok"} \cup FetchFailures, n \in CatalogSizes :
           CatalogFetchCompletes(o, n)
    \/ \E q \in Queries : SearchInput(q)
    \/ \E opt \in SortOptions : SortSelect(opt)
    \/ PreviousPage
    \/ NextPage
    \/ CardClick
    \/ \E id \in ProductIds, o \in DetailOutcomes : DetailFetchCompletes(id, o)
    \/ BackClick

Spec == Init /\ [][Next]_vars

(***************************************************************************)
(* Properties.                                                             *)
(***************************************************************************)
Elems(list) == {list[i] : i \in 1..Len(list)}

\* C1: in every reachable state exactly one top-level view is shown, and
\* which one is decided by the token and the selected id alone: the login
\* page iff the token is absent, the catalog iff the token is present and no
\* id is selected, the detail view iff the token is present and an id is
\* selected.
C1_ExactlyOneView ==
    /\ login.mounted <=> ~Truthy(token)
    /\ catalog.mounted <=> (Truthy(token) /\ selectedProductId = NullId)
    /\ detail.mounted <=> (Truthy(token) /\ selectedProductId # NullId)

\* C2: once the token is present it stays present, whatever user event or
\* fetch completion comes next, and the login page does not come back.
C2_NoWayBackToLogin ==
    [][Truthy(token) => Truthy(token') /\ ~login'.mounted]_vars

\* C2 witness: authenticated, session loaded, a product displayed after the
\* user has navigated.
C2_Witness ==
    /\ Truthy(token)
    /\ sessionPc = "done"
    /\ detail.mounted
    /\ DetailShows(detail) = "product"

\* C3: whenever the Detail Loader displays a product, that product's id is
\* the currently requested id.
C3_DisplayedIsRequested ==
    detail.mounted /\ DetailShows(detail) = "product"
        => detail.product = selectedProductId

SessionUnwritten == user = Null /\ cart = Null /\ allProducts = EmptyArray

\* C4: no session slice is populated while one of the three reads has not
\* resolved, and if any one read fails none of the slices is written.
C4_JointWrite ==
    /\ (~SessionUnwritten
           => \A r \in ReadNames : sessionReads[r] \notin {"idle", "pending"})
    /\ ((\E r \in ReadNames : sessionReads[r] \in FetchFailures)
           => SessionUnwritten)

\* The login responses that are failures: everything but a 2xx with a token.
LoginFailures == LoginOutcomes \ {"ok"}

\* A step in which handleSubmit consumes the login response o.
LoginResponseHandled(o) == o \in loginFetch /\ loginFetch' = loginFetch \ {o}

\* C5 as stated: every login failure, whatever its cause, leaves the
\* application unauthenticated and displays the one fixed
\* invalid-credentials message.
C5_OneMessageForAll ==
    [][\A o \in LoginFailures :
          LoginResponseHandled(o)
              => /\ ~Truthy(token')
                 /\ login'.mounted
                 /\ login'.error = InvalidCredentialsMsg]_vars

\* C5 amended: every login failure leaves the application unauthenticated
\* with the form enabled again, and every failure by a non-2xx status,
\* whatever the status, displays the one fixed invalid-credentials message.
C5_OneMessageForHttp ==
    [][\A o \in LoginFailures :
          LoginResponseHandled(o)
              => /\ ~Truthy(token')
                 /\ login'.mounted
                 /\ ~login'.loading
                 /\ (o \in {"http401", "http500"}
                        => login'.error = InvalidCredentialsMsg)]_vars

\* C5 witness: a failed login has left the fixed message on the login page.
C5_Witness ==
    /\ login.mounted
    /\ ~login.loading
    /\ login.error = InvalidCredentialsMsg
    /\ loginFetch = {}
    /\ ~Truthy(token)

\* C6: a step that puts a loader into its error state starts no fetch, and
\* a retry the user starts recovers: a login response with a token ends in
\* the authenticated state, and a step that writes the requested product
\* into the Detail Loader ends with the product displayed and no error.
C6_RetryRecovers ==
    [][/\ (login.mounted /\ login'.mounted
             /\ login.error = Null /\ login'.error # Null)
            => loginFetch' \subseteq loginFetch
       /\ (detail.mounted /\ detail'.mounted
             /\ detail.error = Null /\ detail'.error # Null)
            => detailFetches' \subseteq detailFetches
       /\ (catalog.mounted /\ catalog'.mounted
             /\ catalog.error = Null /\ catalog'.error # Null)
            => ~catalogFetch'
       /\ (login.mounted /\ LoginResponseHandled("ok"))
            => (Truthy(token') /\ ~login'.mounted)
       /\ (detail.mounted /\ detail'.mounted
             /\ selectedProductId' = selectedProductId
             /\ detail.product # selectedProductId
             /\ detail'.product = selectedProductId)
            => DetailShows(detail') = "product"]_vars

\* The number of filtered items.
FilteredCount == Len(FilterProducts(catalog.products, catalog.searchQuery))

\* C7: with N filtered items the total number of pages is the least k with
\* 8k >= N, Previous is disabled on page 1 and Next is disabled on the last
\* page.
C7_Pagination ==
    CatalogShown =>
        LET T == totalPages(catalog)
        IN  /\ T >= 0
            /\ T * itemsPerPage >= FilteredCount
            /\ (T > 0 => (T - 1) * itemsPerPage < FilteredCount)
            /\ (catalog.currentPage = 1 => PreviousDisabled(catalog))
            /\ (catalog.currentPage = T => NextDisabled(catalog))

\* C7 witness: nine filtered items, two pages, the last page reached.
C7_Witness ==
    /\ CatalogShown
    /\ FilteredCount > itemsPerPage
    /\ totalPages(catalog) = 2
    /\ catalog.currentPage = 2
    /\ NextDisabled(catalog)
    /\ ~PreviousDisabled(catalog)

\* C8: every change of the search query and every change of the sort
\* selection sets the current page to 1 and leaves the loaded list alone.
C8_ChangeResetsPage ==
    [][(CatalogShown /\ catalog'.mounted
          /\ (catalog'.searchQuery # catalog.searchQuery
                \/ catalog'.sortConfig # catalog.sortConfig))
         => (catalog'.currentPage = 1 /\ catalog'.products = catalog.products)]_vars

\* C8 witness: a full list on which both the query and the sort selection
\* have been changed, on page 1.
C8_Witness ==
    /\ CatalogShown
    /\ Len(catalog.products) = MaxProducts
    /\ catalog.searchQuery # << >>
    /\ catalog.sortConfig # DefaultSort
    /\ catalog.currentPage = 1

\* q occurs in s as a substring when case is ignored.
ContainsIgnoringCase(s, q) ==
    \E i \in 0..(Len(s) - Len(q)) :
        \A j \in 1..Len(q) : Letter(s[i + j]) = Letter(q[j])

\* C9: the filtered list holds exactly the products of the loaded list whose
\* title contains the query ignoring case, and nothing else.
C9_FilterExact ==
    CatalogShown =>
        LET kept == Elems(filteredAndSortedProducts(catalog))
            loaded == Elems(catalog.products)
        IN  /\ kept \subseteq loaded
            /\ Len(filteredAndSortedProducts(catalog)) = Cardinality(kept)
            /\ \A id \in loaded :
                   id \in kept <=> ContainsIgnoringCase(Title(id), catalog.searchQuery)

\* C9 witness: a mixed-case two-letter query that keeps some products and
\* drops others.
C9_Witness ==
    /\ CatalogShown
    /\ catalog.searchQuery = <<"B", "a">>
    /\ FilteredCount > 0
    /\ FilteredCount < Len(catalog.products)

\* C10: the current page is always at least 1 and at most max(1, total
\* pages), and the displayed slice is non-empty whenever the filtered list is.
C10_PageInRange ==
    CatalogShown =>
        /\ catalog.currentPage >= 1
        /\ catalog.currentPage <= Max(1, totalPages(catalog))
        /\ (FilteredCount > 0 => Len(paginatedProducts(catalog)) > 0)

====
